---- MODULE Spec2Model ----
(***************************************************************************)
(* Model of src/agent.py: ConversationHistory (the transcript),            *)
(* HomericAgent.search_wikipedia (the lookup tool), process_tool_call,     *)
(* HomericAgent.chat (session creation, the bounded tool-call loop, text   *)
(* extraction, transcript update) and reset_conversation.                  *)
(*                                                                         *)
(* Text is a sequence of string tokens, so that an f-string is the         *)
(* concatenation of its literal pieces and its interpolated values.        *)
(* The hosted model session and the wikipedia package are external: what   *)
(* they return or raise is chosen nondeterministically from small sets.    *)
(***************************************************************************)
EXTENDS Integers, Sequences, FiniteSets, TLC

\* ----------------------------------------------------------------- bounds
MaxCalls == 2
MaxResets == 1

\* ------------------------------------------------------ program constants
max_iterations == 5
SearchResultsLimit == 3

\* self.chat_session is None; sessions are numbered from 1
None == 0

\* ------------------------------------------------------------ input sets
UserTexts == {<<"Who was Achilles?">>, <<"Sing of Troy">>}
Verse == <<"O mortal, hear">>

NoArgs == {}
QueryArgs == {<<"query", "Achilles">>}

TextPart(t) == [text |-> t, function_call |-> [name |-> "", args |-> NoArgs]]
CallPart(n, a) == [text |-> <<>>, function_call |-> [name |-> n, args |-> a]]

PartsChoices ==
    { <<>>,
      <<TextPart(Verse)>>,
      <<CallPart("search_wikipedia", QueryArgs)>>,
      <<CallPart("search_wikipedia", NoArgs)>>,
      <<CallPart("foo", NoArgs)>>,
      <<TextPart(Verse), CallPart("search_wikipedia", QueryArgs)>>,
      <<CallPart("search_wikipedia", QueryArgs), TextPart(Verse)>> }

\* A response of the session: a list of candidates, each a list of parts.
Responses ==
    {[candidates |-> <<>>]} \cup {[candidates |-> <<p>>] : p \in PartsChoices}

NoResponse == [candidates |-> <<>>]

\* ------------------------------------------------- ConversationHistory
Message(role, content) == [role |-> role, content |-> content]

\* variant: the role argument is dropped and every message is stored as "user"
add_message_norole(messages, role, content) ==
    Append(messages, Message("user", content))

add_message(messages, role, content) == Append(messages, Message(role, content))

get_gemini_history(messages) ==
    [i \in 1..Len(messages) |->
        [role |-> messages[i].role, parts |-> <<messages[i].content>>]]

\* ------------------------------------------------------ search_wikipedia
NotCalled == [kind |-> "not_called", titles |-> <<>>, options |-> <<>>]

SearchOutcomes ==
    { [kind |-> "error", titles |-> <<>>, options |-> <<>>],
      [kind |-> "ok", titles |-> <<>>, options |-> <<>>],
      [kind |-> "ok", titles |-> <<"Achilles">>, options |-> <<>>],
      [kind |-> "ok", titles |-> <<"Mercury", "Mercury (planet)", "Mercury (element)">>,
       options |-> <<>>] }

FetchOutcomes ==
    { [kind |-> "ok", titles |-> <<>>, options |-> <<>>],
      [kind |-> "DisambiguationError", titles |-> <<>>, options |-> <<>>],
      [kind |-> "DisambiguationError", titles |-> <<>>,
       options |-> <<"Mercury (mythology)", "Mercury (planet)">>],
      [kind |-> "PageError", titles |-> <<>>, options |-> <<>>],
      [kind |-> "error", titles |-> <<>>, options |-> <<>>] }

\* The exception classes the outer handler `except Exception` catches.
ExceptionKinds == {"error", "DisambiguationError", "PageError", "IndexError"}

Ret(v, f) == [raised |-> FALSE, exc |-> "", value |-> v, fetched |-> f]
Exc(k, f) == [raised |-> TRUE, exc |-> k, value |-> <<>>, fetched |-> f]

RECURSIVE Join(_, _)
Join(sep, ts) ==
    IF ts = <<>> THEN <<>>
    ELSE IF Len(ts) = 1 THEN <<ts[1]>>
    ELSE <<ts[1], sep>> \o Join(sep, Tail(ts))

Slice(s, n) == SubSeq(s, 1, IF Len(s) < n THEN Len(s) ELSE n)

\* wikipedia.summary(title, sentences=5, auto_suggest=False)
summary(title, outcome) ==
    IF outcome.kind = "ok" THEN Ret(<<"summary of ", title>>, <<title>>)
    ELSE Exc(outcome.kind, <<title>>)

Article(title, text) == <<"Wikipedia article on '", title, "':\n\n">> \o text

TopResults(search_results) ==
    <<"Found multiple articles. Top results: ">>
        \o Join(", ", Slice(search_results, SearchResultsLimit))

\* variant: the retry fetches and names the ambiguous top title again
DisambiguationHandlerTopTitle(search_results, options, s2, fetched) ==
    IF options = <<>>
    THEN Ret(TopResults(search_results), fetched)
    ELSE LET r2 == summary(search_results[1], s2) IN
         IF ~r2.raised
         THEN Ret(Article(search_results[1], r2.value), fetched \o r2.fetched)
         ELSE Ret(TopResults(search_results), fetched \o r2.fetched)

\* lines 123-127: the handler of DisambiguationError
DisambiguationHandler(search_results, options, s2, fetched) ==
    IF options = <<>>
    THEN Ret(TopResults(search_results), fetched)
    ELSE LET r2 == summary(options[1], s2) IN
         IF ~r2.raised
         THEN Ret(Article(options[1], r2.value), fetched \o r2.fetched)
         ELSE Ret(TopResults(search_results), fetched \o r2.fetched)

\* lines 118-129: the inner try with its two typed handlers
FirstSummary(query, search_results, s1, s2) ==
    LET r1 == summary(search_results[1], s1) IN
    IF ~r1.raised
    THEN Ret(Article(search_results[1], r1.value), r1.fetched)
    ELSE IF r1.exc = "DisambiguationError"
    THEN DisambiguationHandler(search_results, s1.options, s2, r1.fetched)
    ELSE IF r1.exc = "PageError"
    THEN Ret(<<"Could not retrieve page for '", query, "'.">>, r1.fetched)
    ELSE r1

\* lines 111-129: the body of the outer try
SearchBody(query, sr, s1, s2) ==
    IF sr.kind # "ok" THEN Exc(sr.kind, <<>>)
    ELSE IF sr.titles = <<>>
    THEN Ret(<<"No results found for '", query, "' on Wikipedia.">>, <<>>)
    ELSE FirstSummary(query, sr.titles, s1, s2)

\* variant: the outer handler catches only the wikipedia package's exceptions
OuterHandlerWikipediaOnly(r) ==
    IF r.raised /\ r.exc \in {"DisambiguationError", "PageError"}
    THEN Ret(<<"Error searching Wikipedia: ", r.exc>>, r.fetched)
    ELSE r

\* lines 131-132: `except Exception as e`
OuterHandler(r) ==
    IF r.raised /\ r.exc \in ExceptionKinds
    THEN Ret(<<"Error searching Wikipedia: ", r.exc>>, r.fetched)
    ELSE r

search_wikipedia(query, sr, s1, s2) == OuterHandler(SearchBody(query, sr, s1, s2))

\* The external calls search_wikipedia makes for given outcomes: an outcome
\* is NotCalled exactly when the code does not reach that call.
NeedsFirstFetch(sr) == sr.kind = "ok" /\ sr.titles # <<>>
NeedsSecondFetch(sr, s1) ==
    NeedsFirstFetch(sr) /\ s1.kind = "DisambiguationError" /\ s1.options # <<>>

LookupRuns ==
    { run \in [sr : SearchOutcomes,
               s1 : FetchOutcomes \cup {NotCalled},
               s2 : FetchOutcomes \cup {NotCalled}] :
        /\ (run.s1 = NotCalled) <=> ~NeedsFirstFetch(run.sr)
        /\ (run.s2 = NotCalled) <=> ~NeedsSecondFetch(run.sr, run.s1) }

NoRun == [sr |-> NotCalled, s1 |-> NotCalled, s2 |-> NotCalled]

\* ----------------------------------------------------- process_tool_call
ArgGet(args, key, default) ==
    IF \E kv \in args : kv[1] = key
    THEN (CHOOSE kv \in args : kv[1] = key)[2]
    ELSE default

\* variant: an unknown tool name is an error
process_tool_call_raises(function_name, function_args, run) ==
    IF function_name = "search_wikipedia"
    THEN search_wikipedia(ArgGet(function_args, "query", ""), run.sr, run.s1, run.s2)
    ELSE Exc("ValueError", <<>>)

process_tool_call(function_name, function_args, run) ==
    IF function_name = "search_wikipedia"
    THEN search_wikipedia(ArgGet(function_args, "query", ""), run.sr, run.s1, run.s2)
    ELSE Ret(<<"Unknown function: ", function_name>>, <<>>)

\* ------------------------------------------------------ text extraction
RECURSIVE ConcatText(_)
ConcatText(parts) ==
    IF parts = <<>> THEN <<>>
    ELSE (IF parts[1].text # <<>> THEN parts[1].text ELSE <<>>) \o ConcatText(Tail(parts))

IsFunctionCall(part) == part.function_call.name # ""

\* `response.text` of the session library: defined only for a response whose
\* parts are all text; otherwise it raises ValueError.
QuickTextDefined(resp) ==
    /\ resp.candidates # <<>>
    /\ resp.candidates[1] # <<>>
    /\ \A i \in 1..Len(resp.candidates[1]) : ~IsFunctionCall(resp.candidates[1][i])

\* variant: no fallback when the accessor raises ValueError
ExtractFinalTextNoFallback(resp, quick) ==
    IF quick /\ QuickTextDefined(resp)
    THEN [raised |-> FALSE, value |-> ConcatText(resp.candidates[1])]
    ELSE [raised |-> TRUE, value |-> <<>>]

\* lines 193-200: quick is whether the accessor returned instead of raising
ExtractFinalText(resp, quick) ==
    IF quick /\ QuickTextDefined(resp)
    THEN [raised |-> FALSE, value |-> ConcatText(resp.candidates[1])]
    ELSE IF resp.candidates = <<>>
    THEN [raised |-> TRUE, value |-> <<>>]
    ELSE [raised |-> FALSE, value |-> ConcatText(resp.candidates[1])]

\* ------------------------------------------------------------------ state
VARIABLES
    conversation,   \* self.conversation.messages
    chat_session,   \* self.chat_session: None or the index of a session
    sessions,       \* every session ever started: the history it was seeded
                    \* with and the chat call that started it
    pc,             \* position of the chat call in flight, "idle" between calls
    user_message,   \* argument of the chat call in flight
    response,       \* local `response`
    iteration,      \* local `iteration`
    toolCalls,      \* process_tool_call executions of the current/last chat call
    lookup,         \* the last process_tool_call: name, external outcomes, result
    sent,           \* the last message submitted to the session
    lastOp,         \* how the last operation on the agent ended
    returned,       \* value returned by the last chat call that returned
    completed,      \* chat calls returned since construction or the last reset
    created,        \* sessions started since construction or the last reset
    calls,          \* chat calls started (bounded by MaxCalls)
    before,         \* the transcript as it was when the current/last call began
    resets          \* resets performed (bounded by MaxResets)

vars == <<conversation, chat_session, sessions, pc, user_message, response,
          iteration, toolCalls, lookup, sent, lastOp, returned, completed,
          created, calls, before, resets>>

NoLookup == [name |-> "", query |-> "", run |-> NoRun, result |-> Ret(<<>>, <<>>)]
NoSent == [kind |-> "none", session |-> None, name |-> "", payload |-> <<>>]

\* lines 103-104
Init ==
    /\ conversation = <<>>
    /\ chat_session = None
    /\ sessions = <<>>
    /\ pc = "idle"
    /\ user_message = <<>>
    /\ response = NoResponse
    /\ iteration = 0
    /\ toolCalls = 0
    /\ lookup = NoLookup
    /\ sent = NoSent
    /\ lastOp = "init"
    /\ returned = <<>>
    /\ completed = 0
    /\ created = 0
    /\ calls = 0
    /\ before = <<>>
    /\ resets = 0

\* An exception leaves chat: the locals are gone, nothing else is touched.
Propagate ==
    /\ pc' = "idle"
    /\ lastOp' = "chat_raised"
    /\ response' = NoResponse
    /\ iteration' = 0
    /\ UNCHANGED <<conversation, user_message, returned, completed, calls, before,
                   resets>>

\* line 142: the caller invokes chat(user_message)
chat_enter ==
    /\ pc = "idle"
    /\ calls < MaxCalls
    /\ \E u \in UserTexts : user_message' = u
    /\ pc' = "session"
    /\ calls' = calls + 1
    /\ before' = conversation
    /\ toolCalls' = 0
    /\ lookup' = NoLookup
    /\ sent' = NoSent
    /\ response' = NoResponse
    /\ iteration' = 0
    /\ lastOp' = "chat_running"
    /\ UNCHANGED <<conversation, chat_session, sessions, returned, completed,
                   created, resets>>

\* lines 148-149: start_chat returns a new session seeded with the history
StartChat ==
    /\ sessions' = Append(sessions, [history |-> get_gemini_history(conversation),
                                     call |-> calls])
    /\ chat_session' = Len(sessions) + 1
    /\ created' = created + 1

\* variant: a session is started on every call, whether or not one exists
chat_session_step_always_starts ==
    /\ pc = "session"
    /\ \/ /\ StartChat
          /\ pc' = "send"
          /\ UNCHANGED <<conversation, user_message, response, iteration, lastOp,
                         returned, completed, calls, before, resets>>
       \/ /\ Propagate
          /\ UNCHANGED <<chat_session, sessions, created>>
    /\ UNCHANGED <<toolCalls, lookup, sent>>

chat_session_step ==
    /\ pc = "session"
    /\ \/ /\ chat_session = None
          /\ StartChat
          /\ pc' = "send"
          /\ UNCHANGED <<conversation, user_message, response, iteration, lastOp,
                         returned, completed, calls, before, resets>>
       \/ /\ chat_session = None
          /\ Propagate
          /\ UNCHANGED <<chat_session, sessions, created>>
       \/ /\ chat_session # None
          /\ pc' = "send"
          /\ UNCHANGED <<conversation, chat_session, sessions, created, user_message,
                         response, iteration, lastOp, returned, completed, calls,
                         before, resets>>
    /\ UNCHANGED <<toolCalls, lookup, sent>>

\* variant: the user message is appended to the transcript before it is sent
chat_send_appends_first ==
    /\ pc = "send"
    /\ conversation' = add_message(conversation, "user", user_message)
    /\ sent' = [kind |-> "text", session |-> chat_session, name |-> "",
                payload |-> user_message]
    /\ \/ /\ \E r \in Responses : response' = r
          /\ pc' = "loop"
          /\ iteration' = 0
          /\ UNCHANGED lastOp
       \/ /\ pc' = "idle"
          /\ lastOp' = "chat_raised"
          /\ response' = NoResponse
          /\ iteration' = 0
    /\ UNCHANGED <<user_message, returned, completed, calls, before, resets,
                   chat_session, sessions, created, toolCalls, lookup>>

\* line 152: response = self.chat_session.send_message(user_message)
chat_send ==
    /\ pc = "send"
    /\ sent' = [kind |-> "text", session |-> chat_session, name |-> "",
                payload |-> user_message]
    /\ \/ /\ \E r \in Responses : response' = r
          /\ pc' = "loop"
          /\ iteration' = 0
          /\ UNCHANGED <<conversation, user_message, lastOp, returned, completed,
                         calls, before, resets>>
       \/ Propagate
    /\ UNCHANGED <<chat_session, sessions, created, toolCalls, lookup>>

\* variant: the loop condition is off by one
LoopContinuesInclusive(it) == it <= max_iterations

\* line 159
LoopContinues(it) == it < max_iterations

\* lines 159-190: one evaluation of the loop condition and, if it holds, one
\* pass through the loop body
chat_loop ==
    /\ pc = "loop"
    /\ IF ~LoopContinues(iteration)
       THEN /\ pc' = "extract"
            /\ UNCHANGED <<response, iteration, toolCalls, lookup, sent, lastOp,
                           conversation, user_message, returned, completed, calls,
                           before, resets>>
       ELSE IF response.candidates = <<>>
       THEN /\ Propagate
            /\ UNCHANGED <<toolCalls, lookup, sent>>
       ELSE IF \/ response.candidates[1] = <<>>
               \/ ~IsFunctionCall(response.candidates[1][1])
       THEN /\ pc' = "extract"
            /\ UNCHANGED <<response, iteration, toolCalls, lookup, sent, lastOp,
                           conversation, user_message, returned, completed, calls,
                           before, resets>>
       ELSE LET function_call == response.candidates[1][1].function_call
                function_name == function_call.name
                function_args == function_call.args
            IN \E run \in LookupRuns \cup {NoRun} :
                 /\ (run = NoRun) <=> (function_name # "search_wikipedia")
                 /\ LET function_result ==
                            process_tool_call(function_name, function_args, run)
                    IN /\ toolCalls' = toolCalls + 1
                       /\ lookup' = [name |-> function_name,
                                     query |-> ArgGet(function_args, "query", ""),
                                     run |-> run, result |-> function_result]
                       /\ IF function_result.raised
                          THEN /\ Propagate
                               /\ UNCHANGED sent
                          ELSE /\ sent' = [kind |-> "function_response",
                                           session |-> chat_session,
                                           name |-> function_name,
                                           payload |-> function_result.value]
                               /\ \/ /\ \E r \in Responses : response' = r
                                     /\ iteration' = iteration + 1
                                     /\ pc' = "loop"
                                     /\ UNCHANGED <<conversation, user_message,
                                                    lastOp, returned, completed,
                                                    calls, before, resets>>
                                  \/ Propagate
    /\ UNCHANGED <<chat_session, sessions, created>>

\* lines 192-207: extract the final text, append the turn, return
chat_finish ==
    /\ pc = "extract"
    /\ \E quick \in BOOLEAN :
         LET final_text == ExtractFinalText(response, quick) IN
         IF final_text.raised
         THEN Propagate
         ELSE /\ conversation' =
                    add_message(add_message(conversation, "user", user_message),
                                "model", final_text.value)
              /\ returned' = final_text.value
              /\ completed' = completed + 1
              /\ lastOp' = "chat_returned"
              /\ pc' = "idle"
              /\ response' = NoResponse
              /\ iteration' = 0
              /\ UNCHANGED <<user_message, calls, before, resets>>
    /\ UNCHANGED <<chat_session, sessions, created, toolCalls, lookup, sent>>

\* variant: the reset forgets to discard the session
reset_conversation_keeps_session ==
    /\ pc = "idle"
    /\ resets < MaxResets
    /\ conversation' = <<>>
    /\ resets' = resets + 1
    /\ lastOp' = "reset"
    /\ completed' = 0
    /\ created' = 0
    /\ UNCHANGED <<chat_session, sessions, pc, user_message, response, iteration,
                   toolCalls, lookup, sent, returned, calls, before>>

\* variant: the reset forgets to clear the transcript
reset_conversation_keeps_transcript ==
    /\ pc = "idle"
    /\ resets < MaxResets
    /\ chat_session' = None
    /\ resets' = resets + 1
    /\ lastOp' = "reset"
    /\ completed' = 0
    /\ created' = 0
    /\ UNCHANGED <<conversation, sessions, pc, user_message, response, iteration,
                   toolCalls, lookup, sent, returned, calls, before>>

\* lines 209-212
reset_conversation ==
    /\ pc = "idle"
    /\ resets < MaxResets
    /\ conversation' = <<>>
    /\ chat_session' = None
    /\ resets' = resets + 1
    /\ lastOp' = "reset"
    /\ completed' = 0
    /\ created' = 0
    /\ UNCHANGED <<sessions, pc, user_message, response, iteration, toolCalls,
                   lookup, sent, returned, calls, before>>

Next ==
    \/ chat_enter
    \/ chat_session_step
    \/ chat_send
    \/ chat_loop
    \/ chat_finish
    \/ reset_conversation

Spec == Init /\ [][Next]_vars

\* ------------------------------------------------------------------ claims
Role(i) == IF i % 2 = 1 THEN "user" ELSE "model"

\* C1: after N chat calls have returned since construction or the last reset
\* the transcript holds exactly 2N messages whose roles alternate user, model,
\* ... starting with user; a returning call appends exactly its user message
\* followed by its model message, and nothing else ever changes the transcript
\* except a reset.
C1_Transcript ==
    /\ [](/\ Len(conversation) = 2 * completed
          /\ \A i \in 1..Len(conversation) : conversation[i].role = Role(i))
    /\ [][/\ completed' = completed + 1 =>
                conversation' = conversation \o
                    <<Message("user", user_message), Message("model", returned')>>
          /\ conversation' # conversation =>
                (completed' = completed + 1 \/ lastOp' = "reset")]_vars

C1_Witness ==
    /\ completed = 2
    /\ Len(conversation) = 4
    /\ conversation[2].content = <<>>
    /\ conversation[4].content = Verse

\* C2: one chat call executes process_tool_call at most 5 times whatever the
\* session answers. The loop terminates: a step is always possible while the
\* call is in the loop, every step that stays in the loop raises the iteration
\* count by one, the count never exceeds 5, and at 5 the next step leaves the
\* loop without another tool invocation.
C2_BoundedLoop ==
    /\ [](/\ toolCalls <= max_iterations
          /\ iteration <= max_iterations
          /\ pc = "loop" => ENABLED chat_loop)
    /\ [][/\ (pc = "loop" /\ pc' = "loop") =>
                (iteration' = iteration + 1 /\ toolCalls' = toolCalls + 1)
          /\ (pc = "loop" /\ iteration = max_iterations) =>
                (pc' = "extract" /\ toolCalls' = toolCalls)]_vars

C2_Witness ==
    /\ pc = "loop"
    /\ toolCalls = max_iterations
    /\ response.candidates # <<>>
    /\ response.candidates[1] # <<>>
    /\ IsFunctionCall(response.candidates[1][1])

\* C3: when a chat call raises, at session creation, at the first send or at
\* a send inside the loop, the transcript is exactly what it was when the call
\* began.
C3_FailedTurnNotAppended ==
    lastOp = "chat_raised" => conversation = before

C3_Witness ==
    /\ lastOp = "chat_raised"
    /\ toolCalls >= 1
    /\ sent.kind = "function_response"
    /\ conversation # <<>>

\* C4: a reset leaves the transcript empty and the session absent, and the
\* first chat call after it starts a session that did not exist before and is
\* seeded with an empty history.
C4_Reset ==
    [][/\ lastOp' = "reset" => (conversation' = <<>> /\ chat_session' = None)
       /\ (resets > 0 /\ created = 0 /\ pc = "session" /\ pc' = "send") =>
            /\ chat_session' \notin 1..Len(sessions)
            /\ chat_session' \in 1..Len(sessions')
            /\ sessions'[chat_session'].history = <<>>]_vars

C4_Witness ==
    /\ resets = 1
    /\ pc = "send"
    /\ chat_session = 2
    /\ completed = 0
    /\ returned = Verse

\* C5: search_wikipedia returns a string for every combination of outcomes of
\* the title search and of the summary fetches; a lookup never makes chat
\* raise.
C5_LookupNeverRaises ==
    lookup.name = "search_wikipedia" =>
        /\ ~lookup.result.raised
        /\ lookup.result.value # <<>>

C5_Witness ==
    /\ lookup.name = "search_wikipedia"
    /\ lookup.run.s1.kind = "error"
    /\ lookup.result.value = <<"Error searching Wikipedia: ", "error">>

\* C6: a tool call naming a tool other than search_wikipedia invokes no lookup
\* and raises nothing; the function response submitted to the session, under
\* that name, is exactly "Unknown function: <name>"; the step counts as one
\* iteration and the loop goes on with the new response.
C6_UnknownTool ==
    [][(toolCalls' = toolCalls + 1 /\ lookup'.name # "search_wikipedia") =>
          /\ lookup'.name = response.candidates[1][1].function_call.name
          /\ lookup'.run = NoRun
          /\ lookup'.result.fetched = <<>>
          /\ ~lookup'.result.raised
          /\ sent' = [kind |-> "function_response", session |-> chat_session,
                      name |-> lookup'.name,
                      payload |-> <<"Unknown function: ", lookup'.name>>]
          /\ \/ pc' = "loop" /\ iteration' = iteration + 1 /\ response' \in Responses
             \/ pc' = "idle" /\ lastOp' = "chat_raised"]_vars

C6_Witness ==
    /\ pc = "loop"
    /\ lookup.name = "foo"
    /\ iteration = max_iterations
    /\ sent.payload = <<"Unknown function: ", "foo">>

\* C7: when the summary fetch of the top title raises disambiguation with at
\* least one option, exactly one more fetch is made, for the first option; if
\* it succeeds the result is the article text built from that option's title
\* and summary, and if it fails the result is the list of the top titles (at
\* most 3).
C7_Disambiguation ==
    (/\ lookup.name = "search_wikipedia"
     /\ lookup.run.s1.kind = "DisambiguationError"
     /\ lookup.run.s1.options # <<>>) =>
        LET titles == lookup.run.sr.titles
            option == lookup.run.s1.options[1]
        IN /\ lookup.result.fetched = <<titles[1], option>>
           /\ ~lookup.result.raised
           /\ lookup.run.s2.kind = "ok" =>
                lookup.result.value =
                    <<"Wikipedia article on '", option, "':\n\n",
                      "summary of ", option>>
           /\ lookup.run.s2.kind # "ok" =>
                /\ lookup.result.value =
                      <<"Found multiple articles. Top results: ">>
                          \o Join(", ", titles)
                /\ Len(titles) <= 3

C7_Witness ==
    /\ lookup.name = "search_wikipedia"
    /\ lookup.run.s1.kind = "DisambiguationError"
    /\ lookup.run.s1.options # <<>>
    /\ lookup.run.s2.kind = "ok"
    /\ lookup.result.fetched = <<"Mercury", "Mercury (mythology)">>

\* C8: between construction or a reset and the next reset at most one session
\* is started; it is started by a chat call that finds no session and is
\* seeded with the exchange format of the transcript at that moment; a call
\* that finds a session, also after a failed turn, sends to that very session
\* and starts none.
C8_LazySession ==
    /\ [](/\ created <= 1
          /\ (pc \in {"send", "loop", "extract"}) => chat_session # None
          /\ (pc # "idle" /\ sent.kind # "none") => sent.session = chat_session)
    /\ [][/\ (chat_session # None /\ lastOp' # "reset") =>
                (chat_session' = chat_session /\ sessions' = sessions)
          /\ (chat_session = None /\ chat_session' # None) =>
                /\ sessions' = Append(sessions,
                        [history |-> [i \in 1..Len(conversation) |->
                                        [role |-> conversation[i].role,
                                         parts |-> <<conversation[i].content>>]],
                         call |-> calls])
                /\ chat_session' = Len(sessions')]_vars

C8_Witness ==
    /\ calls = 2
    /\ resets = 0
    /\ completed = 0
    /\ pc = "loop"
    /\ sent.kind = "text"
    /\ sessions[chat_session].call = 1

\* C9: at the cap the response of the fifth function-response submission is
\* neither inspected nor executed; if it is a tool call without any text, chat
\* returns the empty text without raising and the turn is appended as a user
\* message and a model message with empty content.
C9_CapReached ==
    [][/\ (pc = "loop" /\ iteration = max_iterations) =>
            (pc' = "extract" /\ response' = response /\ toolCalls' = toolCalls
                /\ lookup' = lookup /\ sent' = sent)
       /\ (/\ pc = "extract"
           /\ iteration = max_iterations
           /\ response.candidates # <<>>
           /\ response.candidates[1] # <<>>
           /\ \A i \in 1..Len(response.candidates[1]) :
                  /\ IsFunctionCall(response.candidates[1][i])
                  /\ response.candidates[1][i].text = <<>>) =>
            /\ lastOp' = "chat_returned"
            /\ returned' = <<>>
            /\ conversation' = conversation \o
                   <<[role |-> "user", content |-> user_message],
                     [role |-> "model", content |-> <<>>]>>]_vars

C9_Witness ==
    /\ lastOp = "chat_returned"
    /\ toolCalls = max_iterations
    /\ returned = <<>>
    /\ Len(conversation) = 2
    /\ conversation[2] = [role |-> "model", content |-> <<>>]

\* C10: whenever the session is absent the transcript is empty, so every
\* session ever started was seeded with an empty history.
C10_NoSessionNoTranscript ==
    /\ chat_session = None => conversation = <<>>
    /\ \A i \in 1..Len(sessions) : sessions[i].history = <<>>

C10_Witness ==
    /\ chat_session = None
    /\ resets = 1
    /\ returned = Verse
    /\ Len(sessions) = 1

====
